---- MODULE Spec2Model ----
\* webdriver-manager (bin/webdriver-manager of protractor): artifact
\* reconciliation (status / update) and supervision of the selenium server
\* (start).  The output directory outlives a process; everything else is the
\* state of one invocation of the script.
EXTENDS Integers, Sequences, FiniteSets, TLC

\* ---------------------------------------------------------------- bounds
\* number of 'data' events that make up one response body
NumChunks == 1
\* number of files in the output directory before the first invocation
MaxInitFiles == 2
\* number of fetches of one invocation that the network lets fail
MaxFaults == 1
\* number of SIGINTs delivered to one supervisor
MaxSigints == 1
\* number of 'data' events on the supervisor's stdin
MaxStdin == 1

\* ---------------------------------------------------------------- registry
Bins == {"standalone", "chrome", "ie"}

\* the order in which case 'update' calls downloadIfNew
UpdateOrder == <<"standalone", "chrome", "ie">>

\* File names and URLs are sequences of tokens, so that String.indexOf and
\* string concatenation keep their meaning.  "cur" stands for the version
\* configured in config.json, "old" for any other version.
Version(b) == "cur"

\* shortVersion: version without its patch part
shortVersion(v) == <<"short", v>>

BinPrefix(b) ==
  CASE b = "standalone" -> <<"selenium-server-standalone">>
    [] b = "chrome"     -> <<"chromedriver", "_">>
    [] b = "ie"         -> <<"IEDriverServer">>

BinFilename(b) ==
  CASE b = "standalone" -> <<"selenium-server-standalone", "-", Version(b), ".jar">>
    [] b = "chrome"     -> <<"chromedriver", "_", Version(b), ".zip">>
    [] b = "ie"         -> <<"IEDriverServer", "_", Version(b), ".zip">>

\* undefined, as returned by a url() that falls off its last branch
Undefined == <<>>

\* one platform for every branch of the url functions
Platforms == {<<"Darwin", "x64">>, <<"Linux", "ia32">>, <<"Windows_NT", "x64">>,
              <<"SunOS", "x64">>}

BinUrl(b, os, cpu) ==
  CASE b = "standalone" ->
         <<"https://selenium-release.storage.googleapis.com/">> \o
         shortVersion(Version(b)) \o <<"/", "selenium-server-standalone", "-", Version(b), ".jar">>
    [] b = "chrome" ->
         LET urlPrefix == <<"https://chromedriver.storage.googleapis.com/", Version(b),
                            "/", "chromedriver", "_">>
         IN IF os = "Darwin" THEN urlPrefix \o <<"mac32", ".zip">>
            ELSE IF os = "Linux"
                 THEN (IF cpu = "x64" THEN urlPrefix \o <<"linux64", ".zip">>
                                      ELSE urlPrefix \o <<"linux32", ".zip">>)
            ELSE IF os = "Windows_NT" THEN urlPrefix \o <<"win32", ".zip">>
            ELSE Undefined
    [] b = "ie" ->
         LET urlPrefix == <<"https://selenium-release.storage.googleapis.com/">> \o
                          shortVersion(Version(b)) \o <<"/", "IEDriverServer">>
         IN IF os = "Windows_NT"
            THEN (IF cpu = "x64" THEN urlPrefix \o <<"_x64_", Version(b), ".zip">>
                                 ELSE urlPrefix \o <<"_Win32_", Version(b), ".zip">>)
            ELSE Undefined

\* executableName: append '.exe' on windows
executableName(file, os) == IF os = "Windows_NT" THEN file \o <<".exe">> ELSE file

\* the update callbacks: which artifacts are archives that get installed
HasInstall(b) == b \in {"chrome", "ie"}

\* expected contents of the zip (comments in the update callbacks)
ZipEntries(b, os) ==
  CASE b = "chrome" -> {executableName(<<"chromedriver">>, os)}
    [] b = "ie"     -> {<<"IEDriverServer", ".exe">>}
    [] OTHER        -> {}

\* zip.extractAllTo(dir, overwrite): chrome passes true, ie passes nothing
ExtractOverwrite(b) == b = "chrome"

\* ---------------------------------------------------------------- strings
\* String.prototype.indexOf: first position (from 0) of t in s, or -1
IndexOf(s, t) ==
  LET hits == {i \in 0..(Len(s) - Len(t)) : SubSeq(s, i + 1, i + Len(t)) = t}
  IN IF hits = {} THEN 0 - 1
     ELSE CHOOSE i \in hits : \A j \in hits : i <= j

\* ---------------------------------------------------------------- files
OldFilename(b) == [BinFilename(b) EXCEPT ![3] = "old"]

\* names that can be in the output directory before the first invocation
InitialNames ==
  {BinFilename(b) : b \in Bins} \cup {OldFilename(b) : b \in Bins} \cup
  {<<"README">>}

\* content of a file: the chunks written to it; a file left by an earlier
\* installation, an extracted executable
OldContent == <<"old">>
ExeContent == <<"exe">>
Chunk == "chunk"

\* function without one point / with one point set
Remove(f, x) == [y \in DOMAIN f \ {x} |-> f[y]]
Put(f, x, v) == [y \in DOMAIN f \cup {x} |-> IF y = x THEN v ELSE f[y]]

\* ---------------------------------------------------------------- state
VARIABLES
  platform,        \* <<os.type(), os.arch()>>
  argv,            \* argv.standalone, argv.chrome, argv.ie
  dirExists,       \* argv.out_dir exists
  disk,            \* the output directory: file name -> content
  executable,      \* files of the output directory with mode 0755
  pc,              \* "init", "running", "supervising", "exited"
  cmd,             \* argv._[0] of the current invocation
  existingFiles,   \* the listing read by the setup
  exists,          \* bin.exists
  outOfDateExists, \* bin.outOfDateExists
  fetch,           \* per bin: the request and the write stream of httpGetFile
  faults,          \* fetches of this invocation that the network let fail
  hist,            \* per bin: what this invocation did for it
  exitCode,        \* exit status of the current invocation
  exitCause,       \* why it ended
  child,           \* the selenium process: "none", "running", "exited"
  childCode,       \* first argument of its 'exit' event
  spawnArgs,       \* arguments it was spawned with
  exitListener,    \* the 'exit' event is waiting to be handled
  pendingGets,     \* shutdown requests in flight
  stdinEvents,     \* 'data' events handled on stdin
  sigints,         \* SIGINTs handled
  prev,            \* how the previous invocation ended, kept for an update
                   \* that follows an update that completed or was killed
  disk0            \* the output directory when the current invocation started

vars == <<platform, argv, dirExists, disk, executable, pc, cmd, existingFiles,
          exists, outOfDateExists, fetch, faults, hist, exitCode, exitCause, child,
          childCode, spawnArgs, exitListener, pendingGets, stdinEvents, sigints,
          prev, disk0>>

envVars == <<platform, argv>>
superVars == <<child, childCode, spawnArgs, exitListener, pendingGets, stdinEvents, sigints>>
scanVars == <<existingFiles, exists, outOfDateExists>>
runVars == <<cmd, prev, disk0>>

\* no value: an exit code that is not set, the code of a signalled child
Null == 0 - 1

IdleFetch == [phase |-> "idle", status |-> 0, valid |-> FALSE, received |-> 0,
              written |-> 0, linked |-> FALSE]

NoHist == [deleted |-> {}, urlCalls |-> 0, requests |-> 0, installs |-> 0, log |-> {},
           steps |-> <<>>]

NoPrev == [end |-> "none", inFlight |-> {}, outcome |-> [b \in Bins |-> "none"]]

Init ==
  /\ platform \in Platforms
  /\ argv \in [Bins -> BOOLEAN]
  /\ dirExists \in BOOLEAN
  /\ \E names \in SUBSET InitialNames :
       /\ Cardinality(names) <= MaxInitFiles
       /\ ~dirExists => names = {}
       /\ disk = [f \in names |-> OldContent]
       /\ executable = IF platform[1] = "Windows_NT" THEN {}
                       ELSE names \cap {<<"chromedriver">>}
  /\ pc = "init"
  /\ cmd = "none"
  /\ existingFiles = {}
  /\ exists = [b \in Bins |-> FALSE]
  /\ outOfDateExists = [b \in Bins |-> FALSE]
  /\ fetch = [b \in Bins |-> IdleFetch]
  /\ hist = [b \in Bins |-> NoHist]
  /\ faults = 0
  /\ exitCode = Null
  /\ exitCause = "none"
  /\ child = "none"
  /\ childCode = Null
  /\ spawnArgs = <<>>
  /\ exitListener = FALSE
  /\ pendingGets = 0
  /\ stdinEvents = 0
  /\ sigints = 0
  /\ prev = NoPrev
  /\ disk0 = disk

\* ---------------------------------------------------------------- setup
\* variant: the scan looks for the file name of another version
ScanExists_WrongName(dsk) == [b \in Bins |-> OldFilename(b) \in DOMAIN dsk]

\* the scan of "Setup before any command"
ScanExists(dsk) == [b \in Bins |-> BinFilename(b) \in DOMAIN dsk]

\* variant: the expected filename itself counts as an out-of-date file
ScanOutOfDate_AnyMatch(listing) ==
  [b \in Bins |-> \E file \in listing : IndexOf(file, BinPrefix(b)) # -1]

ScanOutOfDate(listing) ==
  [b \in Bins |-> \E file \in listing :
                    IndexOf(file, BinPrefix(b)) # -1 /\ file # BinFilename(b)]

\* ---------------------------------------------------------------- update
\* httpGetFile up to the call of request(): the write stream creates the file
HttpGetFile(st, b) ==
  [st EXCEPT !.disk = Put(@, BinFilename(b), <<>>),
             !.fetch[b] = [IdleFetch EXCEPT !.phase = "sent", !.linked = TRUE],
             !.hist[b].requests = @ + 1,
             !.hist[b].log = @ \cup {"downloading"},
             !.hist[b].steps = Append(@, "fetch")]

\* variant: every file of the listing is unlinked, whatever its name
StaleFiles_AnyFile(b, listing) == listing

\* files of the listing that downloadIfNew unlinks for a bin
StaleFiles(b, listing) == {file \in listing : IndexOf(file, BinPrefix(b)) # -1}

\* variant: the stale files are removed before bin.exists is looked at
DownloadIfNew_CleanFirst(st, b, ex, listing, os, cpu) ==
  LET stale == StaleFiles(b, listing)
      s1 == [st EXCEPT !.disk = [f \in DOMAIN st.disk \ stale |-> st.disk[f]],
                       !.hist[b].deleted = @ \cup (stale \cap DOMAIN st.disk),
                       !.hist[b].steps = Append(@, "delete")]
  IN IF ~ex[b]
     THEN LET s2 == [s1 EXCEPT !.hist[b].log = @ \cup {"updating"},
                               !.hist[b].urlCalls = @ + 1]
          IN IF BinUrl(b, os, cpu) = Undefined
             THEN [s2 EXCEPT !.hist[b].log = @ \cup {"unavailable"}]
             ELSE HttpGetFile(s2, b)
     ELSE [s1 EXCEPT !.hist[b].log = @ \cup {"uptodate"}]

\* variant: the url is not tested before httpGetFile is called
DownloadIfNew_NoUrlCheck(st, b, ex, listing, os, cpu) ==
  IF ~ex[b]
  THEN LET stale == StaleFiles(b, listing)
           s1 == [st EXCEPT !.disk = [f \in DOMAIN st.disk \ stale |-> st.disk[f]],
                            !.hist[b].deleted = @ \cup (stale \cap DOMAIN st.disk),
                            !.hist[b].steps = Append(@, "delete"),
                            !.hist[b].log = @ \cup {"updating"},
                            !.hist[b].urlCalls = @ + 1]
       IN HttpGetFile(s1, b)
  ELSE [st EXCEPT !.hist[b].log = @ \cup {"uptodate"}]

\* variant: the request is sent before the stale files are removed
DownloadIfNew_FetchFirst(st, b, ex, listing, os, cpu) ==
  IF ~ex[b]
  THEN LET stale == StaleFiles(b, listing)
           url == BinUrl(b, os, cpu)
           s1 == [st EXCEPT !.hist[b].log = @ \cup {"updating"},
                            !.hist[b].urlCalls = @ + 1]
           s2 == IF url = Undefined
                 THEN [s1 EXCEPT !.hist[b].log = @ \cup {"unavailable"}]
                 ELSE HttpGetFile(s1, b)
       IN [s2 EXCEPT !.disk = [f \in DOMAIN s2.disk \ stale |-> s2.disk[f]],
                     !.hist[b].deleted = @ \cup (stale \cap DOMAIN s2.disk),
                     !.hist[b].steps = Append(@, "delete")]
  ELSE [st EXCEPT !.hist[b].log = @ \cup {"uptodate"}]

DownloadIfNew(st, b, ex, listing, os, cpu) ==
  IF ~ex[b]
  THEN LET stale == StaleFiles(b, listing)
           s1 == [st EXCEPT !.disk = [f \in DOMAIN st.disk \ stale |-> st.disk[f]],
                            !.hist[b].deleted = @ \cup (stale \cap DOMAIN st.disk),
                            !.hist[b].steps = Append(@, "delete"),
                            !.hist[b].log = @ \cup {"updating"},
                            !.hist[b].urlCalls = @ + 1]
           url == BinUrl(b, os, cpu)
       IN IF url = Undefined
          THEN [s1 EXCEPT !.hist[b].log = @ \cup {"unavailable"}]
          ELSE HttpGetFile(s1, b)
  ELSE [st EXCEPT !.hist[b].log = @ \cup {"uptodate"}]

\* case 'update': the selected bins in the order of the source
RECURSIVE UpdatePass(_, _, _, _, _, _, _)
UpdatePass(st, i, sel, ex, listing, os, cpu) ==
  IF i > Len(UpdateOrder) THEN st
  ELSE LET b == UpdateOrder[i]
           s1 == IF sel[b] THEN DownloadIfNew(st, b, ex, listing, os, cpu) ELSE st
       IN UpdatePass(s1, i + 1, sel, ex, listing, os, cpu)

\* what the network did for a bin in an invocation
Outcome(f) ==
  IF f.phase = "failed" THEN "error"
  ELSE IF f.status = 200 THEN (IF f.valid THEN "200" ELSE "200-notzip")
  ELSE IF f.status = 404 THEN "404"
  ELSE "none"

InFlight(f) == f.phase \in {"sent", "body", "ending"}

\* the setup of a new process of the script
NewProcess ==
  /\ pc = "init"
  /\ disk0' = disk
  /\ dirExists' = TRUE
  /\ existingFiles' = DOMAIN disk
  /\ exists' = ScanExists(disk)
  /\ outOfDateExists' = ScanOutOfDate(DOMAIN disk)
  /\ faults' = 0
  /\ UNCHANGED <<envVars, executable>>

NoChild ==
  /\ child' = "none"
  /\ childCode' = Null
  /\ spawnArgs' = <<>>
  /\ exitListener' = FALSE
  /\ pendingGets' = 0
  /\ stdinEvents' = 0
  /\ sigints' = 0

\* the script from its first line to the end of case 'update'
RunUpdate ==
  /\ NewProcess
  /\ NoChild
  /\ LET st == UpdatePass([disk |-> disk, fetch |-> [b \in Bins |-> IdleFetch],
                           hist |-> [b \in Bins |-> NoHist]], 1, argv,
                          ScanExists(disk), DOMAIN disk, platform[1], platform[2])
     IN /\ disk' = st.disk
        /\ fetch' = st.fetch
        /\ hist' = st.hist
  /\ prev' = prev
  /\ cmd' = "update"
  /\ pc' = "running"
  /\ exitCode' = Null
  /\ exitCause' = "none"

\* case 'status': prints one line per bin
RunStatus ==
  /\ NewProcess
  /\ NoChild
  /\ fetch' = [b \in Bins |-> IdleFetch]
  /\ hist' = [b \in Bins |->
               [NoHist EXCEPT !.log =
                  IF ScanExists(disk)[b] THEN {"uptodate"}
                  ELSE IF ScanOutOfDate(DOMAIN disk)[b] THEN {"needsupdate"}
                  ELSE {"notpresent"}]]
  /\ prev' = NoPrev
  /\ cmd' = "status"
  /\ pc' = "running"
  /\ exitCode' = Null
  /\ exitCause' = "none"
  /\ UNCHANGED disk

\* ---------------------------------------------------------------- fetch
\* exit status of a node process that dies of an uncaught exception
\* (8 before node 0.12, 1 since)
UncaughtExitCodes == {1, 8}

\* request 'response': any status other than 200 unlinks the destination
\* (fs.unlink, taken with the handler that calls it)
OnResponse(b) ==
  /\ pc = "running"
  /\ fetch[b].phase = "sent"
  /\ \E code \in {200, 404} :
       /\ faults' = IF code = 200 THEN faults ELSE faults + 1
       /\ faults' <= MaxFaults
       /\ fetch' = [fetch EXCEPT ![b].phase = "body",
                                 ![b].status = code,
                                 ![b].linked = (code = 200)]
       /\ disk' = IF code # 200 THEN Remove(disk, BinFilename(b)) ELSE disk
       /\ hist' = [hist EXCEPT ![b].log = IF code # 200 THEN @ \cup {"error"} ELSE @]
  /\ UNCHANGED <<envVars, superVars, scanVars, runVars, dirExists, executable,
                 pc, exitCode, exitCause>>

\* variant: the 'error' handler does not unlink the destination
OnError_NoUnlink(b) ==
  /\ pc = "running"
  /\ \/ fetch[b].phase = "sent"
     \/ fetch[b].phase = "body" /\ fetch[b].status = 200
  /\ faults < MaxFaults
  /\ faults' = faults + 1
  /\ fetch' = [fetch EXCEPT ![b].phase = "failed", ![b].written = fetch[b].received]
  /\ hist' = [hist EXCEPT ![b].log = @ \cup {"error"}]
  /\ UNCHANGED <<envVars, superVars, scanVars, runVars, dirExists, disk, executable,
                 pc, exitCode, exitCause>>

\* request 'error': a transport error before the response or inside the body
OnError(b) ==
  /\ pc = "running"
  /\ \/ fetch[b].phase = "sent"
     \/ fetch[b].phase = "body" /\ fetch[b].status = 200
  /\ faults < MaxFaults
  /\ faults' = faults + 1
  /\ fetch' = [fetch EXCEPT ![b].phase = "failed", ![b].linked = FALSE,
                            ![b].written = fetch[b].received]
  /\ disk' = Remove(disk, BinFilename(b))
  /\ hist' = [hist EXCEPT ![b].log = @ \cup {"error"}]
  /\ UNCHANGED <<envVars, superVars, scanVars, runVars, dirExists, executable,
                 pc, exitCode, exitCause>>

\* request 'data': file.write(data) hands the chunk to the write stream; what
\* is written to a file that has been unlinked is gone with it
OnData(b) ==
  /\ pc = "running"
  /\ fetch[b].phase = "body"
  /\ fetch[b].received < NumChunks
  /\ fetch' = [fetch EXCEPT ![b].received = @ + 1,
                            ![b].written = IF fetch[b].linked THEN @ ELSE @ + 1]
  /\ UNCHANGED <<faults, envVars, superVars, scanVars, runVars, dirExists, disk, executable,
                 hist, pc, exitCode, exitCause>>

\* the chunks the write stream holds, as file.write leaves them to it
Pending(f) == [i \in 1..(f.received - f.written) |-> Chunk]

\* the write stream writes what it holds to the destination
Flush(b) ==
  /\ pc = "running"
  /\ fetch[b].phase \in {"body", "ending"}
  /\ fetch[b].written < fetch[b].received
  /\ fetch' = [fetch EXCEPT ![b].written = fetch[b].received]
  /\ disk' = [disk EXCEPT ![BinFilename(b)] = @ \o Pending(fetch[b])]
  /\ UNCHANGED <<faults, envVars, superVars, scanVars, runVars, dirExists, executable,
                 hist, pc, exitCode, exitCause>>

\* request 'end': file.end(cb)
OnEnd(b) ==
  /\ pc = "running"
  /\ fetch[b].phase = "body"
  /\ fetch[b].received = NumChunks
  /\ fetch' = [fetch EXCEPT ![b].phase = "ending"]
  /\ hist' = [hist EXCEPT ![b].steps = Append(@, "end")]
  /\ UNCHANGED <<faults, envVars, superVars, scanVars, runVars, dirExists, disk, executable,
                 pc, exitCode, exitCause>>

\* new AdmZip(filename) reads the archive: it throws when the file is missing
\* or is not a zip archive (zip tells what the body of the response was)
ArchiveReadable(b, dsk, zip) == BinFilename(b) \in DOMAIN dsk /\ zip

\* zip.extractAllTo(argv.out_dir, overwrite)
ExtractAllTo(b, dsk, os) ==
  [y \in DOMAIN dsk \cup ZipEntries(b, os) |->
     IF y \in ZipEntries(b, os) /\ (y \notin DOMAIN dsk \/ ExtractOverwrite(b))
     THEN ExeContent ELSE dsk[y]]

\* fs.chmodSync(chromedriver, 0755) of the chrome callback
ChmodAfterInstall(b, os) ==
  IF b = "chrome" /\ os # "Windows_NT" THEN {<<"chromedriver">>} ELSE {}

\* variant: the callback runs right after file.end() is called, without
\* waiting for the stream
OnFinish_NoWait(b) ==
  /\ pc = "running"
  /\ fetch[b].phase = "ending"
  /\ hist' = [hist EXCEPT ![b].log = @ \cup {"downloaded"},
                          ![b].installs = IF HasInstall(b) THEN @ + 1 ELSE @,
                          ![b].steps = Append(@, IF HasInstall(b) THEN "install"
                                                 ELSE "callback")]
  /\ \E zip \in BOOLEAN :
       /\ zip => fetch[b].status = 200
       /\ ~zip => fetch[b].status # 200 \/ (HasInstall(b) /\ faults < MaxFaults)
       /\ faults' = IF fetch[b].status = 200 /\ ~zip THEN faults + 1 ELSE faults
       /\ fetch' = [fetch EXCEPT ![b].phase = "done", ![b].valid = zip]
       /\ IF ~HasInstall(b)
          THEN UNCHANGED <<disk, executable, pc, exitCode, exitCause>>
          ELSE IF ArchiveReadable(b, disk, zip)
          THEN /\ disk' = ExtractAllTo(b, disk, platform[1])
               /\ executable' = executable \cup ChmodAfterInstall(b, platform[1])
               /\ UNCHANGED <<pc, exitCode, exitCause>>
          ELSE /\ pc' = "exited"
               /\ exitCode' \in UncaughtExitCodes
               /\ exitCause' = "uncaught"
               /\ UNCHANGED <<disk, executable>>
  /\ UNCHANGED <<envVars, superVars, scanVars, runVars, dirExists>>

\* the callback of file.end, called when the stream has written all it held:
\* 'downloaded' is printed and the callback given to downloadIfNew runs
OnFinish(b) ==
  /\ pc = "running"
  /\ fetch[b].phase = "ending"
  /\ fetch[b].written = fetch[b].received
  /\ hist' = [hist EXCEPT ![b].log = @ \cup {"downloaded"},
                          ![b].installs = IF HasInstall(b) THEN @ + 1 ELSE @,
                          ![b].steps = Append(@, IF HasInstall(b) THEN "install"
                                                 ELSE "callback")]
  /\ \E zip \in BOOLEAN :
       /\ zip => fetch[b].status = 200
       /\ ~zip => fetch[b].status # 200 \/ (HasInstall(b) /\ faults < MaxFaults)
       /\ faults' = IF fetch[b].status = 200 /\ ~zip THEN faults + 1 ELSE faults
       /\ fetch' = [fetch EXCEPT ![b].phase = "done", ![b].valid = zip]
       /\ IF ~HasInstall(b)
          THEN UNCHANGED <<disk, executable, pc, exitCode, exitCause>>
          ELSE IF ArchiveReadable(b, disk, zip)
          THEN /\ disk' = ExtractAllTo(b, disk, platform[1])
               /\ executable' = executable \cup ChmodAfterInstall(b, platform[1])
               /\ UNCHANGED <<pc, exitCode, exitCause>>
          ELSE /\ pc' = "exited"
               /\ exitCode' \in UncaughtExitCodes
               /\ exitCause' = "uncaught"
               /\ UNCHANGED <<disk, executable>>
  /\ UNCHANGED <<envVars, superVars, scanVars, runVars, dirExists>>

\* nothing is left on the event loop: node exits with status 0
Quiescent(f) ==
  /\ f.phase \in {"idle", "done", "failed"}

Exit ==
  /\ pc = "running"
  /\ \A b \in Bins : Quiescent(fetch[b])
  /\ pc' = "exited"
  /\ exitCode' = 0
  /\ exitCause' = "completed"
  /\ UNCHANGED <<faults, envVars, superVars, scanVars, runVars, dirExists, disk, executable,
                 fetch, hist>>

\* the process is killed while a download is in flight
Crash ==
  /\ pc = "running"
  /\ cmd = "update"
  /\ \E b \in Bins : InFlight(fetch[b])
  /\ pc' = "exited"
  /\ exitCode' = Null
  /\ exitCause' = "killed"
  /\ UNCHANGED <<faults, envVars, superVars, scanVars, runVars, dirExists, disk, executable,
                 fetch, hist>>

\* the operator runs the script again: nothing of the old process is left
\* but the output directory
Rerun ==
  /\ pc = "exited"
  /\ pc' = "init"
  /\ prev' = IF cmd = "update" /\ exitCause \in {"completed", "killed"}
             THEN [end |-> exitCause,
                   inFlight |-> IF exitCause = "killed"
                                THEN {b \in Bins : InFlight(fetch[b])} ELSE {},
                   outcome |-> [b \in Bins |-> IF exitCause = "completed"
                                               THEN Outcome(fetch[b]) ELSE "none"]]
             ELSE NoPrev
  /\ cmd' = "none"
  /\ existingFiles' = {}
  /\ exists' = [b \in Bins |-> FALSE]
  /\ outOfDateExists' = [b \in Bins |-> FALSE]
  /\ fetch' = [b \in Bins |-> IdleFetch]
  /\ hist' = [b \in Bins |-> NoHist]
  /\ faults' = 0
  /\ exitCode' = Null
  /\ exitCause' = "none"
  /\ NoChild
  /\ UNCHANGED <<envVars, dirExists, disk, executable, disk0>>

\* ---------------------------------------------------------------- start
\* spawnCommand: wrapped in cmd /c on win32
spawnCommand(command, args, os) ==
  IF os = "Windows_NT" THEN <<<<"cmd">>, <<"/c">>, command>> \o args
  ELSE <<command>> \o args

\* the arguments case 'start' builds (no seleniumPort given)
StartArgs(ex, os) ==
  <<<<"-jar">>, BinFilename("standalone")>> \o
  (IF ex["chrome"]
   THEN <<<<"-Dwebdriver.chrome.driver=">> \o executableName(<<"chromedriver">>, os)>>
   ELSE <<>>) \o
  (IF ex["ie"]
   THEN <<<<"-Dwebdriver.ie.driver=">> \o executableName(<<"IEDriverServer">>, os)>>
   ELSE <<>>)

\* process.exit(code): a code that is null or undefined counts as 0
ProcessExit(code) == IF code = Null THEN 0 ELSE code

\* variant: case 'start' does not stop when the jar is missing
StartPrecondition_Any(ex) == TRUE

\* case 'start' goes on only when the standalone jar is present
StartPrecondition(ex) == ex["standalone"]

\* the script from its first line to the end of case 'start'
RunStart ==
  /\ NewProcess
  /\ fetch' = [b \in Bins |-> IdleFetch]
  /\ hist' = [b \in Bins |-> NoHist]
  /\ prev' = NoPrev
  /\ cmd' = "start"
  /\ childCode' = Null
  /\ exitListener' = FALSE
  /\ pendingGets' = 0
  /\ stdinEvents' = 0
  /\ sigints' = 0
  /\ IF ~StartPrecondition(ScanExists(disk))
     THEN /\ pc' = "exited"
          /\ exitCode' = ProcessExit(1)
          /\ exitCause' = "precondition"
          /\ child' = "none"
          /\ spawnArgs' = <<>>
     ELSE /\ pc' = "supervising"
          /\ child' = "running"
          /\ spawnArgs' = spawnCommand(<<"java">>, StartArgs(ScanExists(disk), platform[1]),
                                       platform[1])
          /\ exitCode' = Null
          /\ exitCause' = "none"
  /\ UNCHANGED disk

\* codes a selenium server exits with; Null when a signal killed it
ChildExitCodes == {0, 3}

\* variant: the 'exit' event of a child is delivered again, with another code
ChildTerminates_Again ==
  /\ child \in {"running", "exited"}
  /\ child' = "exited"
  /\ childCode' \in ChildExitCodes \cup {Null}
  /\ exitListener' = (pc = "supervising")
  /\ UNCHANGED <<faults, envVars, scanVars, runVars, dirExists, disk, executable, fetch, hist,
                 pc, exitCode, exitCause, spawnArgs, pendingGets, stdinEvents, sigints>>

\* the child terminates; its 'exit' event is queued on a living supervisor
ChildTerminates ==
  /\ child = "running"
  /\ child' = "exited"
  /\ childCode' \in ChildExitCodes \cup {Null}
  /\ exitListener' = (pc = "supervising")
  /\ UNCHANGED <<faults, envVars, scanVars, runVars, dirExists, disk, executable, fetch, hist,
                 pc, exitCode, exitCause, spawnArgs, pendingGets, stdinEvents, sigints>>

\* seleniumProcess.on('exit')
OnChildExit ==
  /\ pc = "supervising"
  /\ exitListener
  /\ exitListener' = FALSE
  /\ pc' = "exited"
  /\ exitCode' = ProcessExit(childCode)
  /\ exitCause' = "childExit"
  /\ UNCHANGED <<faults, envVars, scanVars, runVars, dirExists, disk, executable, fetch, hist,
                 child, childCode, spawnArgs, pendingGets, stdinEvents, sigints>>

\* process.stdin.on('data'): http.get of the shutdown URL, not waited for
OnStdinData ==
  /\ pc = "supervising"
  /\ stdinEvents < MaxStdin
  /\ stdinEvents' = stdinEvents + 1
  /\ pendingGets' = pendingGets + 1
  /\ UNCHANGED <<faults, envVars, scanVars, runVars, dirExists, disk, executable, fetch, hist,
                 pc, exitCode, exitCause, child, childCode, spawnArgs, exitListener,
                 sigints>>

\* the shutdown request gets its response
GetResponse ==
  /\ pc = "supervising"
  /\ pendingGets > 0
  /\ pendingGets' = pendingGets - 1
  /\ UNCHANGED <<faults, envVars, scanVars, runVars, dirExists, disk, executable, fetch, hist,
                 pc, exitCode, exitCause, child, childCode, spawnArgs, exitListener,
                 stdinEvents, sigints>>

\* the shutdown request fails: its 'error' event has no listener and is thrown
GetError ==
  /\ pc = "supervising"
  /\ pendingGets > 0
  /\ pendingGets' = pendingGets - 1
  /\ pc' = "exited"
  /\ exitCode' \in UncaughtExitCodes
  /\ exitCause' = "uncaught"
  /\ UNCHANGED <<faults, envVars, scanVars, runVars, dirExists, disk, executable, fetch, hist,
                 child, childCode, spawnArgs, exitListener, stdinEvents, sigints>>

\* variant: no SIGINT listener, the signal ends the process
OnSigint_Default ==
  /\ pc = "supervising"
  /\ sigints < MaxSigints
  /\ sigints' = sigints + 1
  /\ pc' = "exited"
  /\ exitCode' = 130
  /\ exitCause' = "killed"
  /\ UNCHANGED <<faults, envVars, scanVars, runVars, dirExists, disk, executable, fetch, hist,
                 child, childCode, spawnArgs, exitListener, pendingGets, stdinEvents>>

\* process.on('SIGINT'): prints a line
OnSigint ==
  /\ pc = "supervising"
  /\ sigints < MaxSigints
  /\ sigints' = sigints + 1
  /\ UNCHANGED <<faults, envVars, scanVars, runVars, dirExists, disk, executable, fetch, hist,
                 pc, exitCode, exitCause, child, childCode, spawnArgs, exitListener,
                 pendingGets, stdinEvents>>

\* ---------------------------------------------------------------- spec
Next ==
  \/ RunUpdate
  \/ RunStatus
  \/ RunStart
  \/ \E b \in Bins : OnResponse(b)
  \/ \E b \in Bins : OnError(b)
  \/ \E b \in Bins : OnData(b)
  \/ \E b \in Bins : Flush(b)
  \/ \E b \in Bins : OnEnd(b)
  \/ \E b \in Bins : OnFinish(b)
  \/ Exit
  \/ Crash
  \/ Rerun
  \/ ChildTerminates
  \/ OnChildExit
  \/ OnStdinData
  \/ GetResponse
  \/ GetError
  \/ OnSigint

Spec == Init /\ [][Next]_vars

\* ---------------------------------------------------------------- claims
Os == platform[1]
Cpu == platform[2]

\* names of the listing read by the setup that contain the prefix of a bin
PrefixFiles(b, names) == {f \in names : IndexOf(f, BinPrefix(b)) # -1}

\* the fetch of a bin was answered with 200 and, for an archive, installed
FetchedAndInstalled(b) ==
  fetch[b].phase = "done" /\ fetch[b].status = 200 /\ fetch[b].valid

\* C1: a selected descriptor whose expected file exists when update starts is
\* left alone: its reconciliation deletes nothing, does not resolve the URL,
\* sends no request and installs nothing, and every file with its prefix keeps
\* its content, also when stale files with the prefix are in the directory.
C1_PresentShortCircuits ==
  \A b \in Bins :
    (cmd = "update" /\ argv[b] /\ BinFilename(b) \in DOMAIN disk0) =>
      /\ hist[b].deleted = {}
      /\ hist[b].urlCalls = 0
      /\ hist[b].requests = 0
      /\ hist[b].installs = 0
      /\ fetch[b] = IdleFetch
      /\ \A f \in PrefixFiles(b, DOMAIN disk0) : f \in DOMAIN disk /\ disk[f] = disk0[f]

C1_Witness ==
  \E b \in Bins :
    /\ cmd = "update" /\ argv[b] /\ exists[b] /\ outOfDateExists[b]
    /\ pc = "exited" /\ exitCause = "completed"
    /\ "uptodate" \in hist[b].log

\* C2: a selected descriptor whose expected file was absent and that had a
\* stale file, once the pass has completed with its fetch (and install)
\* successful, has its expected file in the directory and no other file whose
\* name contains its prefix.
C2_StaleReplaced ==
  \A b \in Bins :
    (/\ cmd = "update" /\ argv[b] /\ ~exists[b] /\ outOfDateExists[b]
     /\ pc = "exited" /\ exitCause = "completed" /\ FetchedAndInstalled(b)) =>
      /\ BinFilename(b) \in DOMAIN disk
      /\ PrefixFiles(b, DOMAIN disk) = {BinFilename(b)}

\* the network treated every bin this invocation fetched as it did last time
SameNetwork == \A b \in Bins : Outcome(fetch[b]) \in {"none", prev.outcome[b]}

\* C3 as stated: the second of two update runs in a row, with the network
\* behaving as in the first, sends no request and leaves the directory as the
\* first run left it.
C3_SecondRunIdle ==
  (/\ prev.end = "completed" /\ cmd = "update"
   /\ pc = "exited" /\ exitCause = "completed" /\ SameNetwork) =>
    /\ \A b \in Bins : hist[b].requests = 0
    /\ disk = disk0

\* C3 amended: when the first run left the expected file of every selected
\* descriptor that has a URL on this platform, the second run sends no request
\* and the directory stays as the first run left it.
C3_SecondRunIdleWhenPresent ==
  (/\ prev.end = "completed" /\ cmd = "update"
   /\ \A b \in Bins : (argv[b] /\ BinUrl(b, Os, Cpu) # Undefined) =>
                        BinFilename(b) \in DOMAIN disk0) =>
    /\ \A b \in Bins : hist[b].requests = 0
    /\ disk = disk0

C3_Witness ==
  /\ prev.end = "completed" /\ cmd = "update" /\ pc = "exited"
  /\ \E b \in Bins : argv[b] /\ prev.outcome[b] = "200"
  /\ \A b \in Bins : (argv[b] /\ BinUrl(b, Os, Cpu) # Undefined) => exists[b]

\* C4: after an update that was killed in the middle of a fetch, the re-run
\* fetches every selected descriptor whose download had not completed.
C4_CrashedFetchRetried ==
  \A b \in Bins :
    (cmd = "update" /\ prev.end = "killed" /\ b \in prev.inFlight /\ argv[b]) =>
      hist[b].requests = 1

\* C5: a fetch that failed, by a status other than 200 or by a transport
\* error, leaves no file at its destination.
C5_FailedFetchLeavesNoFile ==
  \A b \in Bins :
    (cmd = "update" /\ (fetch[b].phase = "failed" \/ fetch[b].status = 404)) =>
      BinFilename(b) \notin DOMAIN disk

C5_Witness ==
  /\ pc = "exited" /\ exitCause = "completed"
  /\ \E b \in Bins : fetch[b].phase = "failed" /\ fetch[b].received > 0

\* C6: when the install of one artifact fails, the fetches of the other
\* selected artifacts of the pass are not cut short.
C6_InstallFailureIsolated ==
  (cmd = "update" /\ pc = "exited" /\ exitCause = "uncaught") =>
    \A c \in Bins : ~InFlight(fetch[c])

\* the part of the state an update pass sets up for a bin
PassResult(st, c) == <<st.fetch[c], st.hist[c]>>

\* C7: a selected descriptor for which the resolver returns undefined gets no
\* request and is reported unavailable, and the pass leaves every other
\* descriptor as the pass without it would.
C7_UnavailableInv ==
  \A b \in Bins :
    (cmd = "update" /\ argv[b] /\ ~exists[b] /\ BinUrl(b, Os, Cpu) = Undefined) =>
      /\ hist[b].requests = 0
      /\ fetch[b] = IdleFetch
      /\ "unavailable" \in hist[b].log

C7_OthersUnaffected ==
  (pc = "init" /\ cmd' = "update") =>
    \A b \in Bins :
      (argv[b] /\ ~exists'[b] /\ BinUrl(b, Os, Cpu) = Undefined) =>
        LET without == UpdatePass([disk |-> disk, fetch |-> [c \in Bins |-> IdleFetch],
                                   hist |-> [c \in Bins |-> NoHist]], 1,
                                  [argv EXCEPT ![b] = FALSE], exists', existingFiles',
                                  Os, Cpu)
        IN /\ \A c \in Bins \ {b} :
                <<fetch'[c], hist'[c]>> = PassResult(without, c)
           /\ \A f \in DOMAIN without.disk \cup DOMAIN disk' :
                f \notin PrefixFiles(b, existingFiles') =>
                  /\ f \in DOMAIN without.disk /\ f \in DOMAIN disk'
                  /\ disk'[f] = without.disk[f]

C8_ExitCodePropagated ==
  (cmd = "start" /\ exitCause = "childExit") =>
    pc = "exited" /\ child = "exited" /\ exitCode = childCode

\* C9: start with the standalone jar absent spawns nothing and ends with a
\* status that is not 0.
C9_StartNeedsStandalone ==
  (cmd = "start" /\ BinFilename("standalone") \notin DOMAIN disk0) =>
    /\ child = "none"
    /\ spawnArgs = <<>>
    /\ pc = "exited"
    /\ exitCode > 0

C9_Witness ==
  cmd = "start" /\ ~exists["standalone"] /\ pc = "exited" /\ exitCause = "precondition"

\* C10: a SIGINT leaves the supervisor as it was, waiting for the child, and
\* a supervisor that got no input on stdin ends only by the exit of the child.
C10_SigintStep ==
  (sigints' # sigints /\ sigints' # 0) =>
    /\ pc = "supervising" /\ pc' = "supervising"
    /\ exitCode' = Null
    /\ UNCHANGED <<child, childCode, exitListener, pendingGets, disk>>

C10_EndsByChildOnly ==
  (cmd = "start" /\ pc = "exited" /\ child # "none" /\ stdinEvents = 0) =>
    child = "exited" /\ exitCause = "childExit"

C11_StatusNoMutation ==
  [][(cmd' = "status") => UNCHANGED <<dirExists, disk, executable>>]_vars

\* C12: the callback given to httpGetFile, and with it the install, runs only
\* for a fetch answered with status 200: after another status or a transport
\* error it does not run and no install is attempted.
C12_CallbackOnlyOnSuccess ==
  \A b \in Bins :
    (fetch[b].phase = "failed" \/ fetch[b].status \notin {0, 200}) =>
      /\ "downloaded" \notin hist[b].log
      /\ hist[b].installs = 0
      /\ fetch[b].phase # "done"

\* the whole body of a response
FullBody == [i \in 1..NumChunks |-> Chunk]

\* C13: on a fetch answered with 200, when the callback of file.end runs
\* every chunk received is in the destination file and the stream holds
\* nothing more to write; the file the install has read is the whole body.
C13_FinishStep ==
  \A b \in Bins :
    (fetch[b].phase = "ending" /\ fetch'[b].phase = "done" /\ fetch[b].status = 200) =>
      /\ fetch[b].received = NumChunks
      /\ fetch[b].written = fetch[b].received
      /\ BinFilename(b) \in DOMAIN disk
      /\ disk[BinFilename(b)] = FullBody

C13_DoneInv ==
  \A b \in Bins :
    (fetch[b].phase = "done" /\ fetch[b].status = 200) =>
      /\ BinFilename(b) \in DOMAIN disk
      /\ disk[BinFilename(b)] = FullBody

StepOrder == <<"delete", "fetch", "end", "install">>

\* s is a prefix of t
RECURSIVE IsPrefix(_, _)
IsPrefix(s, t) ==
  \/ s = <<>>
  \/ /\ t # <<>> /\ Head(s) = Head(t)
     /\ IsPrefix(Tail(s), Tail(t))

\* C14: in an update pass every descriptor goes through its own steps in the
\* order delete-stale, fetch, install: no request is sent while a stale file
\* of the listing is still there, and the install runs after the 'end' of the
\* fetch; the fetches of different descriptors overlap.
C14_OwnStepsInOrder ==
  \A b \in Bins :
    cmd = "update" =>
      /\ \/ IsPrefix(hist[b].steps, StepOrder)
         \/ ~HasInstall(b) /\ hist[b].steps = <<"delete", "fetch", "end", "callback">>
      /\ hist[b].requests > 0 =>
           /\ hist[b].deleted = StaleFiles(b, DOMAIN disk0)
           /\ hist[b].steps # <<>> /\ Head(hist[b].steps) = "delete"
      /\ hist[b].installs > 0 => fetch[b].phase = "done"
      /\ fetch[b].phase \in {"sent", "body", "ending"} => hist[b].installs = 0

\* the fetch that was started first is still waiting for its response when
\* the fetch started after it has been installed
C14_Witness ==
  /\ cmd = "update" /\ pc = "running"
  /\ fetch["standalone"].phase = "sent"
  /\ PrefixFiles("standalone", DOMAIN disk0) # {}
  /\ fetch["chrome"].phase = "done" /\ hist["chrome"].installs = 1
  /\ hist["chrome"].steps = StepOrder
  /\ hist["chrome"].deleted # {}

\* the state of the managed process of section 4.5
SupState ==
  IF child = "none" THEN "NotStarted"
  ELSE IF child = "exited" THEN "Exited"
  ELSE IF stdinEvents > 0 \/ sigints > 0 THEN "ShuttingDown"
  ELSE "Running"

SupMoves ==
  {<<"NotStarted", "Running">>, <<"Running", "ShuttingDown">>,
   <<"Running", "Exited">>, <<"ShuttingDown", "Exited">>}

\* C15: within one launch the managed process moves only NotStarted ->
\* Running -> Exited and Running -> ShuttingDown -> Exited; Exited is not
\* left, the code of the child is set when Exited is entered and the exit
\* code of the supervisor, once set, stays.
C15_Step ==
  (pc' # "init") =>
    /\ SupState' # SupState => <<SupState, SupState'>> \in SupMoves
    /\ child = "exited" => child' = "exited" /\ childCode' = childCode
    /\ childCode' # childCode => child # "exited" /\ child' = "exited"
    /\ pc = "exited" => pc' = "exited" /\ exitCode' = exitCode

C15_CodeOnlyWhenExited == child # "exited" => childCode = Null

C16_StdinStep ==
  (stdinEvents' # stdinEvents /\ stdinEvents' # 0) =>
    /\ stdinEvents' = stdinEvents + 1
    /\ pendingGets' = pendingGets + 1
    /\ pc = "supervising" /\ pc' = "supervising"
    /\ UNCHANGED <<child, childCode, exitListener, exitCode>>

C16_ExitNotLost == ~(cmd = "start" /\ pc = "exited" /\ exitListener)

C16_ShutdownRequestNotAwaited == []C16_ExitNotLost /\ [][C16_StdinStep]_vars

\* the name f has the tokens of p somewhere in it
Contains(f, p) ==
  \E i \in 1..Len(f) :
    /\ i + Len(p) - 1 <= Len(f)
    /\ \A j \in 1..Len(p) : f[i + j - 1] = p[j]

\* C17: the scan marks a descriptor present exactly when its expected
\* filename is in the directory when the invocation starts, and out of date
\* exactly when another name of that listing contains its prefix; the scan is
\* not taken again while the command runs.
C17_ScanInv ==
  cmd # "none" =>
    /\ existingFiles = DOMAIN disk0
    /\ \A b \in Bins :
         /\ exists[b] <=> BinFilename(b) \in DOMAIN disk0
         /\ outOfDateExists[b] <=>
              \E f \in DOMAIN disk0 : f # BinFilename(b) /\ Contains(f, BinPrefix(b))

C17_ScanOnce == (pc # "init" /\ pc' # "init") => UNCHANGED scanVars

C17_ScanClassifies == []C17_ScanInv /\ [][C17_ScanOnce]_vars

C17_Witness ==
  \E b \in Bins, c \in Bins :
    /\ cmd = "update" /\ c # b
    /\ ~exists[b] /\ BinFilename(b) \in DOMAIN disk
    /\ outOfDateExists[b] /\ PrefixFiles(b, DOMAIN disk) = {BinFilename(b)}
    /\ exists[c] /\ ~outOfDateExists[c]

\* C18: a supervisor that has spawned its child ends only by the 'exit' event
\* of that child, whatever becomes of its shutdown requests.
C18_OnlyChildExitEnds ==
  (cmd = "start" /\ child # "none" /\ pc = "exited") => exitCause = "childExit"

\* the executable that case 'start' names in the driver argument of a bin
DriverName(b, os) ==
  executableName(IF b = "chrome" THEN <<"chromedriver">> ELSE <<"IEDriverServer">>, os)

\* C19: an archive that an update has downloaded and that the setup of an
\* invocation finds present has been extracted: the executable that start
\* names for it is in the output directory.
C19_PresentMeansExtracted ==
  \A b \in {c \in Bins : HasInstall(c)} :
    (cmd # "none" /\ exists[b] /\ disk0[BinFilename(b)] # OldContent) =>
      DriverName(b, Os) \in DOMAIN disk0

\* the descriptors whose files an update may delete
Replaceable == {b \in Bins : argv[b] /\ ~exists[b]}

\* C20: every file that an update has deleted has a name that contains the
\* prefix of a descriptor that is selected and not present; every other file
\* that was in the directory when the update started is still there.
C20_DeletesOnlyOwnPrefix ==
  cmd = "update" =>
    /\ \A f \in (DOMAIN disk0 \ DOMAIN disk) \cup UNION {hist[b].deleted : b \in Bins} :
         \E b \in Replaceable : Contains(f, BinPrefix(b))
    /\ \A f \in DOMAIN disk0 :
         (\A b \in Replaceable : ~Contains(f, BinPrefix(b))) => f \in DOMAIN disk

C20_Witness ==
  /\ cmd = "update" /\ pc = "exited" /\ exitCause = "completed"
  /\ \E b \in Replaceable : hist[b].deleted # {}
  /\ \E c \in Bins \ Replaceable :
       \E f \in DOMAIN disk0 \cap DOMAIN disk : Contains(f, BinPrefix(c))

====
